---- MODULE Spec2Model ----
(***************************************************************************)
(* A model of the Cloudflare worker-script client: configuration          *)
(* validation and projection (pkg/config), client construction, shutdown, *)
(* the multipart upload body, and the upload / delete request sequences   *)
(* of both client variants kept in cloudflare.go (Client and Cloudflare). *)
(*                                                                         *)
(* Strings are TLA+ strings, byte payloads are strings, nil is Nil, and a *)
(* Go error is a record [format, args] as fmt.Errorf / errors.New build   *)
(* it: args holds the formatted operands in order, already as text.       *)
(***************************************************************************)
EXTENDS Integers, Sequences, FiniteSets, TLC

VARIABLES
    cfg,          \* config.Config: the configuration record under validation
    validateErr,  \* what Config.Validate returned (Unset before the call)
    options,      \* the *cloudflare.Options handed to New (Nil before)
    flags,        \* the flag names registered on the FlagSet, bound to cfg's fields
    optionsBy,    \* who filled them in, [by, cfg]: by is "config" (GenerateOptions, of
                  \* the configuration cfg as it was then), "caller" or "none"
    newResult,    \* what New returned: [client, err] (Unset before the call)
    upstream,     \* what Cloudflare.UpstreamRootDomain() returned (Unset before)
    cf,           \* the Cloudflare client the calls below run on
    client,       \* the Client (older variant) the calls below run on
    pc,           \* per call: where the call is
    call,         \* per call: the operation and its arguments
    sent,         \* per call: the HTTP requests the call has issued, in order
    got,          \* per call: the HTTP responses the call has received, in order
    ret,          \* per call: what the call returned
    buildIn,      \* the arguments of the last multipart assembly
    buildOut      \* the multipart body (parts and metadata) it produced

cfgVars  == <<cfg, flags, validateErr, options, optionsBy, newResult, upstream>>
callVars == <<cf, client, pc, call, sent, got, ret>>
bldVars  == <<buildIn, buildOut>>
vars     == <<cfg, flags, validateErr, options, optionsBy, newResult, upstream,
              cf, client, pc, call, sent, got, ret, buildIn, buildOut>>

-----------------------------------------------------------------------------
(* Bounds of the exploration.                                              *)

MaxCalls     == 2   \* concurrent callers of one client
MaxFunctions == 2   \* function artifacts in one upload
MaxFiles     == 2   \* auxiliary files of one artifact

-----------------------------------------------------------------------------
(* Values.                                                                 *)

Nil   == [nil |-> TRUE]
Unset == [unset |-> TRUE]

Range(s) == {s[i] : i \in 1..Len(s)}

\* Sequences over S of length at most n.
SeqUpTo(S, n) == UNION {[1..k -> S] : k \in 0..n}

\* errors.New(text)
ErrorsNew(text) == [format |-> text, args |-> <<>>]

\* fmt.Errorf(format, args...): the operands are kept in order, as text.
Errorf(format, args) == [format |-> format, args |-> args]

\* err.Error() of a wrapped operand (%w) or the text of a %s operand.
ErrorText(err) == err.format

-----------------------------------------------------------------------------
(* net/url, as far as the client depends on it: a raw URL is the sequence  *)
(* of the operands the code concatenates; url.Parse fails on an operand    *)
(* that is an invalid percent-escape.                                      *)

InvalidEscape == "%zz"

RECURSIVE Concat(_)
Concat(segs) == IF segs = <<>> THEN "" ELSE Head(segs) \o Concat(Tail(segs))

URLParse(segs) ==
    IF \E i \in 1..Len(segs) : segs[i] = InvalidEscape
    THEN [url |-> Nil,
          err |-> ErrorsNew("parse \"" \o Concat(segs) \o "\": invalid URL escape \"%zz\"")]
    ELSE [url |-> [segs |-> segs], err |-> Nil]

URLString(u) == Concat(u.segs)

-----------------------------------------------------------------------------
(* pkg/config                                                              *)

ErrUserIDRequired             == ErrorsNew("cloudflare user id is required")
ErrTokenRequired              == ErrorsNew("cloudflare token is required")
ErrPrefixRequired             == ErrorsNew("cloudflare prefix is required")
ErrUpstreamRootDomainRequired == ErrorsNew("cloudflare upstream root domain is required")

DefaultDisabled == FALSE

\* config.New()
ConfigNew ==
    [Disabled |-> DefaultDisabled, UserID |-> "", Token |-> "", Prefix |-> "",
     UpstreamRootDomain |-> ""]

\* A faulty variant: the prefix is not required.
ValidateSkipsPrefix(c) ==
    [cfg |-> c,
     err |-> IF ~c.Disabled
             THEN IF c.UserID = "" THEN ErrUserIDRequired
                  ELSE IF c.Token = "" THEN ErrTokenRequired
                  ELSE IF c.UpstreamRootDomain = "" THEN ErrUpstreamRootDomainRequired
                  ELSE Nil
             ELSE Nil]

\* (c *Config) Validate(): the receiver as the call leaves it, and the error.
Validate(c) ==
    [cfg |-> c,
     err |-> IF ~c.Disabled
             THEN IF c.UserID = "" THEN ErrUserIDRequired
                  ELSE IF c.Token = "" THEN ErrTokenRequired
                  ELSE IF c.Prefix = "" THEN ErrPrefixRequired
                  ELSE IF c.UpstreamRootDomain = "" THEN ErrUpstreamRootDomainRequired
                  ELSE Nil
             ELSE Nil]

\* The flags of RootPersistentFlags and the field each one is bound to.
FlagNames ==
    {"cloudflare-disabled", "cloudflare-user-id", "cloudflare-token", "cloudflare-prefix",
     "cloudflare-upstream-root-domain"}

\* (c *Config) RootPersistentFlags(flags): BoolVar and StringVar store the
\* default through the pointer they are given and add the flag to the set.
RootPersistentFlags(c, flagSet) ==
    [cfg |-> [c EXCEPT !.Disabled = DefaultDisabled, !.UserID = "", !.Token = "",
                       !.Prefix = "", !.UpstreamRootDomain = ""],
     flags |-> flagSet \cup FlagNames]

\* strconv.ParseBool, on the two texts the command lines here use.
ParseBool(text) == text = "true"

\* A flag given on the command line (or flags.Set): the value is stored
\* through the pointer RootPersistentFlags bound to the flag.
SetFlag(c, name, text) ==
    IF name = "cloudflare-disabled" THEN [c EXCEPT !.Disabled = ParseBool(text)]
    ELSE IF name = "cloudflare-user-id" THEN [c EXCEPT !.UserID = text]
    ELSE IF name = "cloudflare-token" THEN [c EXCEPT !.Token = text]
    ELSE IF name = "cloudflare-prefix" THEN [c EXCEPT !.Prefix = text]
    ELSE [c EXCEPT !.UpstreamRootDomain = text]

\* (c *Config) GenerateOptions(logName): UpstreamRootDomain is not among the
\* fields the literal sets, so it keeps Go's zero value.
GenerateOptions(c, logName) ==
    [options |-> [LogName |-> logName, Disabled |-> c.Disabled, UserID |-> c.UserID,
                  Token |-> c.Token, Prefix |-> c.Prefix, UpstreamRootDomain |-> ""],
     err |-> Nil]

-----------------------------------------------------------------------------
(* Construction and shutdown.                                              *)

ErrDisabled == ErrorsNew("cloudflare is disabled")

APIAccounts == "https://api.cloudflare.com/client/v4/accounts/"
WorkersScripts == "/workers/scripts"

\* A faulty variant: the URL is parsed before Disabled is looked at.
NewParsesFirst(o) ==
    LET parsed == URLParse(<<APIAccounts, o.UserID, WorkersScripts>>) IN
    IF parsed.err # Nil THEN [client |-> Nil, err |-> parsed.err]
    ELSE IF o.Disabled THEN [client |-> Nil, err |-> ErrDisabled]
    ELSE [client |-> [options |-> o, workerURL |-> parsed.url,
                      authorizationHeader |-> "Bearer " \o o.Token,
                      cancelled |-> FALSE, wg |-> 0],
          err |-> Nil]

\* New(options, logger) of the Cloudflare variant.
New(o) ==
    IF o.Disabled THEN [client |-> Nil, err |-> ErrDisabled]
    ELSE LET parsed == URLParse(<<APIAccounts, o.UserID, WorkersScripts>>) IN
         IF parsed.err # Nil THEN [client |-> Nil, err |-> parsed.err]
         ELSE [client |-> [options |-> o, workerURL |-> parsed.url,
                           authorizationHeader |-> "Bearer " \o o.Token,
                           cancelled |-> FALSE, wg |-> 0],
               err |-> Nil]

\* New(options, logger) of the Client variant: no disabled flag.
ClientNew(o) ==
    LET parsed == URLParse(<<APIAccounts, o.UserID, WorkersScripts>>) IN
    IF parsed.err # Nil THEN [client |-> Nil, err |-> parsed.err]
    ELSE [client |-> [options |-> o, workerURL |-> parsed.url,
                      authorizationHeader |-> "Bearer " \o o.Token,
                      cancelled |-> FALSE, wg |-> 0],
          err |-> Nil]

\* (c *Cloudflare) UpstreamRootDomain()
UpstreamRootDomain(c) == c.options.UpstreamRootDomain

-----------------------------------------------------------------------------
(* The multipart body.                                                     *)

\* addPart(w, name, filename, contentType, r): the writer with the part added.
\* The writer is a bytes.Buffer, whose writes do not fail.
addPart(w, name, filename, contentType, r) ==
    [w |-> Append(w, [ContentDisposition |->
                          "form-data; name=\"" \o name \o "\"; filename=\"" \o filename \o "\"",
                      Name |-> name, Filename |-> filename,
                      ContentType |-> contentType, Content |-> r]),
     err |-> Nil]

\* json.Marshal of bindings.Worker and bindings.Metadata.
MarshalWorker(b) ==
    "{\"type\":\"" \o b.Type \o "\",\"name\":\"" \o b.Name \o "\",\"part\":\"" \o b.Part \o "\"}"

RECURSIVE MarshalWorkers(_)
MarshalWorkers(ws) ==
    IF ws = <<>> THEN ""
    ELSE IF Len(ws) = 1 THEN MarshalWorker(ws[1])
    ELSE MarshalWorker(ws[1]) \o "," \o MarshalWorkers(Tail(ws))

MarshalMetadata(m) ==
    "{\"body_part\":\"" \o m.BodyPart \o "\",\"bindings\":[" \o MarshalWorkers(m.Bindings) \o "]}"

\* UploadFunction, lines 312-319: the parts of one function's files, appended to w.
RECURSIVE AddFileParts(_, _, _)
AddFileParts(w, function, files) ==
    IF files = <<>> THEN w
    ELSE LET file == Head(files)
             name == function.Identifier \o "." \o file.Extension
         IN AddFileParts(addPart(w, name, name, file.ContentType, file.Content).w,
                         function, Tail(files))

\* UploadFunction, lines 304-320: the parts of the functions, appended to w.
RECURSIVE AddFunctionParts(_, _)
AddFunctionParts(w, functions) ==
    IF functions = <<>> THEN w
    ELSE LET function == Head(functions)
             name == function.Identifier \o ".bin"
             w1 == addPart(w, name, name, "application/octet-stream", function.Source).w
         IN AddFunctionParts(AddFileParts(w1, function, function.Files), Tail(functions))

\* UploadFunction, lines 330-336: the bindings of one function's files.
RECURSIVE FileWorkers(_, _, _)
FileWorkers(workers, function, files) ==
    IF files = <<>> THEN workers
    ELSE LET file == Head(files) IN
         FileWorkers(Append(workers, [Type |-> file.Type,
                                      Name |-> "__" \o file.Binding \o "_" \o function.Identifier,
                                      Part |-> function.Identifier \o "." \o file.Extension]),
                     function, Tail(files))

\* UploadFunction, lines 322-337: the bindings list.
RECURSIVE FunctionWorkers(_, _)
FunctionWorkers(workers, functions) ==
    IF functions = <<>> THEN workers
    ELSE LET function == Head(functions)
             w1 == Append(workers, [Type |-> "data_blob",
                                    Name |-> "__SF_" \o function.Identifier,
                                    Part |-> function.Identifier \o ".bin"])
         IN FunctionWorkers(FileWorkers(w1, function, function.Files), Tail(functions))

\* multipart.NewWriter draws a random boundary; its value decides nothing here.
Boundary == "b0undary"

\* writer.FormDataContentType()
FormDataContentType(body) == "multipart/form-data; boundary=" \o body.boundary

\* UploadFunction, lines 296-355: the multipart body and the metadata in it.
UploadFunctionBody(wrapperScript, functions) ==
    LET w0 == addPart(<<>>, "worker.js", "worker.js", "application/javascript", wrapperScript).w
        w1 == AddFunctionParts(w0, functions)
        metadata == [BodyPart |-> "worker.js", Bindings |-> FunctionWorkers(<<>>, functions)]
        w2 == addPart(w1, "metadata", "metadata.json", "application/json",
                      MarshalMetadata(metadata)).w
    IN [boundary |-> Boundary, parts |-> w2, metadata |-> metadata, closed |-> TRUE]

\* scalefile's ScaleFunction.Encode(): opaque bytes of the scale function.
Encode(sf) == "scalefile(" \o sf \o ")"

\* UploadScaleFunction, lines 92-106.
RECURSIVE AddScaleFunctionParts(_, _)
AddScaleFunctionParts(w, functions) ==
    IF functions = <<>> THEN w
    ELSE LET function == Head(functions)
             bin == function.Identifier \o ".bin"
             wasm == function.Identifier \o ".wasm"
             w1 == addPart(w, bin, bin, "application/octet-stream",
                           Encode(function.ScaleFunction)).w
             w2 == addPart(w1, wasm, wasm, "application/wasm", function.WASM).w
         IN AddScaleFunctionParts(w2, Tail(functions))

\* UploadScaleFunction, lines 108-120.
RECURSIVE ScaleFunctionWorkers(_, _)
ScaleFunctionWorkers(workers, functions) ==
    IF functions = <<>> THEN workers
    ELSE LET function == Head(functions)
             w1 == Append(workers, [Type |-> "data_blob",
                                    Name |-> "__SF_" \o function.Identifier,
                                    Part |-> function.Identifier \o ".bin"])
             w2 == Append(w1, [Type |-> "wasm_module",
                               Name |-> "__WASM_" \o function.Identifier,
                               Part |-> function.Identifier \o ".wasm"])
         IN ScaleFunctionWorkers(w2, Tail(functions))

\* UploadScaleFunction, lines 84-138.
UploadScaleFunctionBody(wrapperScript, functions) ==
    LET w0 == addPart(<<>>, "worker.js", "worker.js", "application/javascript", wrapperScript).w
        w1 == AddScaleFunctionParts(w0, functions)
        metadata == [BodyPart |-> "worker.js",
                     Bindings |-> ScaleFunctionWorkers(<<>>, functions)]
        w2 == addPart(w1, "metadata", "metadata.json", "application/json",
                      MarshalMetadata(metadata)).w
    IN [boundary |-> Boundary, parts |-> w2, metadata |-> metadata, closed |-> TRUE]

-----------------------------------------------------------------------------
(* net/http, as far as the client depends on it.                           *)

StatusOK == 200

\* http.NewRequest(method, url, body): fails when the URL does not parse.
NewRequest(method, segs, body) ==
    LET parsed == URLParse(segs) IN
    IF parsed.err # Nil THEN [req |-> Nil, err |-> parsed.err]
    ELSE [req |-> [Method |-> method, URL |-> URLString(parsed.url),
                   Header |-> <<>>, Body |-> body],
          err |-> Nil]

\* req.Header.Add(key, value)
HeaderAdd(req, key, value) ==
    [req EXCEPT !.Header = Append(@, [key |-> key, value |-> value])]

\* io.ReadAll(resp.Body)
ReadAll(resp) ==
    IF resp.ReadErr # Nil THEN [data |-> "", err |-> resp.ReadErr]
    ELSE [data |-> resp.Body.raw, err |-> Nil]

\* A member of a JSON object, or the Go zero value of the field when absent.
Member(obj, key, zero) == IF key \in DOMAIN obj THEN obj[key] ELSE zero

\* json.NewDecoder(resp.Body).Decode(&res) with res a *models.UploadResponse:
\* the pointer as the call leaves it, and the error. JSON null sets it to nil.
Decode(resp) ==
    LET doc == resp.Body.doc IN
    IF resp.ReadErr # Nil THEN [res |-> Unset, err |-> resp.ReadErr]
    ELSE IF doc.kind = "invalid"
         THEN [res |-> Unset, err |-> ErrorsNew("invalid character 'i' looking for beginning of value")]
    ELSE IF doc.kind = "null" THEN [res |-> Nil, err |-> Nil]
    ELSE LET result == Member(doc.members, "result", <<>>) IN
         [res |-> [Success  |-> Member(doc.members, "success", FALSE),
                   Errors   |-> Member(doc.members, "errors", <<>>),
                   Messages |-> Member(doc.members, "messages", <<>>),
                   Result   |-> [Id |-> Member(result, "id", ""),
                                 AvailableOnSubdomain |->
                                     Member(result, "available_on_subdomain", FALSE)]],
          err |-> Nil]

\* fmt's %+v of a []models.ResponseError
FormatResponseError(e) == "{Code:" \o ToString(e.code) \o " Message:" \o e.message \o "}"

RECURSIVE FormatResponseErrors(_)
FormatResponseErrors(es) ==
    IF es = <<>> THEN ""
    ELSE IF Len(es) = 1 THEN FormatResponseError(es[1])
    ELSE FormatResponseError(es[1]) \o " " \o FormatResponseErrors(Tail(es))

FormatErrors(es) == "[" \o FormatResponseErrors(es) \o "]"

-----------------------------------------------------------------------------
(* The calls. Each operator runs the function from one blocking point to   *)
(* the next and says how it goes on: it sends a request and waits for the  *)
(* response (next = "put", "post", "delete"), returns, or panics.          *)

Return(val, err) == [next |-> "returned", send |-> Nil,
                     ret |-> [val |-> val, err |-> err]]
Send(next, req)  == [next |-> next, send |-> req, ret |-> Unset]
Panic(text)      == [next |-> "panicked", send |-> Nil,
                     ret |-> [panic |-> text]]

UploadQuery == "?include_subdomain_availability=true&excludeScript=true"

\* UploadFunction, lines 296-364: up to the PUT.
UploadFunctionBegin(c, identifier, wrapperScript, functions) ==
    LET body == UploadFunctionBody(wrapperScript, functions)
        made == NewRequest("PUT", <<URLString(c.workerURL), "/", c.options.Prefix,
                                    identifier, UploadQuery>>, body)
    IN IF made.err # Nil
       THEN Return(Nil, Errorf("error creating upload request: %w", <<ErrorText(made.err)>>))
       ELSE Send("put", HeaderAdd(HeaderAdd(made.req, "Content-Type", FormDataContentType(body)),
                                  "Authorization", c.authorizationHeader))

\* A faulty variant: the error leaves the response body out.
UploadFunctionRejectedDropsBody(resp) ==
    Return(Nil, Errorf("error uploading worker (%d: %s)",
                       <<ToString(resp.StatusCode), resp.Status>>))

\* UploadFunction, lines 369-373: the error of a PUT answered with another status.
UploadFunctionRejected(resp) ==
    LET read == ReadAll(resp) IN
    IF read.err # Nil
    THEN Return(Nil, Errorf("error uploading worker (%d: %s): %w",
                            <<ToString(resp.StatusCode), resp.Status, ErrorText(read.err)>>))
    ELSE Return(Nil, Errorf("error uploading worker (%d: %s): %s",
                            <<ToString(resp.StatusCode), resp.Status, read.data>>))

\* A faulty variant: the subdomain is enabled whatever the result says.
NeedsSubdomainAlways(res) == TRUE

\* UploadFunction, line 384: whether the subdomain has to be enabled.
NeedsSubdomain(res) == ~res.Result.AvailableOnSubdomain

\* The body of the subdomain POST: the literal and how it reads as JSON.
EnableSubdomain ==
    [raw |-> "{\"enabled\": true}",
     doc |-> [kind |-> "object", members |-> [enabled |-> TRUE]]]

\* UploadFunction, lines 364-392: from the PUT's outcome to the POST or the return.
\* res.Success on line 380 dereferences the pointer Decode may have set to nil.
UploadFunctionPut(c, identifier, resp) ==
    IF resp.err # Nil
    THEN Return(Nil, Errorf("error uploading worker: %w", <<ErrorText(resp.err)>>))
    ELSE IF resp.StatusCode # StatusOK
    THEN UploadFunctionRejected(resp)
    ELSE LET dec == Decode(resp) IN
         IF dec.err # Nil
         THEN Return(Nil, Errorf("error decoding upload response: %w", <<ErrorText(dec.err)>>))
         ELSE IF dec.res = Nil
         THEN Panic("invalid memory address or nil pointer dereference")
         ELSE IF ~dec.res.Success
         THEN Return(Nil, Errorf("error uploading worker: %+v", <<FormatErrors(dec.res.Errors)>>))
         ELSE IF NeedsSubdomain(dec.res)
         THEN LET made == NewRequest("POST", <<URLString(c.workerURL), "/", c.options.Prefix,
                                               identifier, "/subdomain">>, EnableSubdomain)
              IN IF made.err # Nil
                 THEN Return(Nil, Errorf("error creating subdomain request: %w",
                                         <<ErrorText(made.err)>>))
                 ELSE Send("post", HeaderAdd(HeaderAdd(made.req, "Content-Type", "application/json"),
                                             "Authorization", c.authorizationHeader))
         ELSE Return([Identifier |-> identifier, Subdomain |-> c.options.Prefix \o identifier], Nil)

\* UploadFunction, lines 392-408: from the POST's outcome to the return.
UploadFunctionPost(c, identifier, resp) ==
    IF resp.err # Nil
    THEN Return(Nil, Errorf("error creating subdomain: %w", <<ErrorText(resp.err)>>))
    ELSE IF resp.StatusCode # StatusOK
    THEN LET read == ReadAll(resp) IN
         IF read.err # Nil
         THEN Return(Nil, Errorf("error creating subdomain (%d: %s): %w",
                                 <<ToString(resp.StatusCode), resp.Status, ErrorText(read.err)>>))
         ELSE Return(Nil, Errorf("error creating subdomain (%d: %s): %s",
                                 <<ToString(resp.StatusCode), resp.Status, read.data>>))
    ELSE Return([Identifier |-> identifier, Subdomain |-> c.options.Prefix \o identifier], Nil)

\* UploadScaleFunction, lines 84-147: up to the PUT.
UploadScaleFunctionBegin(c, identifier, wrapperScript, functions) ==
    LET body == UploadScaleFunctionBody(wrapperScript, functions)
        made == NewRequest("PUT", <<URLString(c.workerURL), "/", c.options.Prefix,
                                    identifier, UploadQuery>>, body)
    IN IF made.err # Nil
       THEN Return(Nil, Errorf("error creating upload request: %w", <<ErrorText(made.err)>>))
       ELSE Send("put", HeaderAdd(HeaderAdd(made.req, "Content-Type", FormDataContentType(body)),
                                  "Authorization", c.authorizationHeader))

\* UploadScaleFunction, lines 147-164: from the PUT's outcome to the return.
UploadScaleFunctionPut(c, identifier, resp) ==
    IF resp.err # Nil
    THEN Return(Nil, Errorf("error uploading worker: %w", <<ErrorText(resp.err)>>))
    ELSE IF resp.StatusCode # StatusOK
    THEN LET read == ReadAll(resp) IN
         IF read.err # Nil
         THEN Return(Nil, Errorf("error uploading worker (%d: %s): %w",
                                 <<ToString(resp.StatusCode), resp.Status, ErrorText(read.err)>>))
         ELSE Return(Nil, Errorf("error uploading worker (%d: %s): %s",
                                 <<ToString(resp.StatusCode), resp.Status, read.data>>))
    ELSE LET dec == Decode(resp) IN
         IF dec.err # Nil
         THEN Return(Nil, Errorf("error decoding upload response: %w", <<ErrorText(dec.err)>>))
         ELSE Return(dec.res, Nil)

\* DeleteFunction, lines 412-418: up to the DELETE.
DeleteFunctionBegin(c, identifier) ==
    LET made == NewRequest("DELETE", <<URLString(c.workerURL), "/", c.options.Prefix,
                                       identifier>>, Nil)
    IN IF made.err # Nil
       THEN Return(Nil, Errorf("error creating delete request: %w", <<ErrorText(made.err)>>))
       ELSE Send("delete", HeaderAdd(made.req, "Authorization", c.authorizationHeader))

\* A faulty variant: the error leaves the response body out.
DeleteFunctionDoneDropsBody(c, resp) ==
    IF resp.err # Nil
    THEN Return(Nil, Errorf("error deleting worker: %w", <<ErrorText(resp.err)>>))
    ELSE IF resp.StatusCode # StatusOK
    THEN Return(Nil, Errorf("error deleting worker (%d: %s)",
                            <<ToString(resp.StatusCode), resp.Status>>))
    ELSE Return(Nil, Nil)

\* DeleteFunction, lines 418-429: from the DELETE's outcome to the return.
DeleteFunctionDone(c, resp) ==
    IF resp.err # Nil
    THEN Return(Nil, Errorf("error deleting worker: %w", <<ErrorText(resp.err)>>))
    ELSE IF resp.StatusCode # StatusOK
    THEN LET read == ReadAll(resp) IN
         IF read.err # Nil
         THEN Return(Nil, Errorf("error deleting worker (%d: %s): %w",
                                 <<ToString(resp.StatusCode), resp.Status, ErrorText(read.err)>>))
         ELSE Return(Nil, Errorf("error deleting worker (%d: %s): %s",
                                 <<ToString(resp.StatusCode), resp.Status, read.data>>))
    ELSE Return(Nil, Nil)

\* DeleteScaleFunction, lines 168-174: up to the DELETE.
DeleteScaleFunctionBegin(c, identifier) ==
    LET made == NewRequest("DELETE", <<URLString(c.workerURL), "/", c.options.Prefix,
                                       identifier>>, Nil)
    IN IF made.err # Nil
       THEN Return(Nil, Errorf("error creating delete request: %w", <<ErrorText(made.err)>>))
       ELSE Send("delete", HeaderAdd(made.req, "Authorization", c.authorizationHeader))

\* DeleteScaleFunction, lines 174-185: from the DELETE's outcome to the return.
DeleteScaleFunctionDone(c, resp) ==
    IF resp.err # Nil
    THEN Return(Nil, Errorf("error deleting worker: %w", <<ErrorText(resp.err)>>))
    ELSE IF resp.StatusCode # StatusOK
    THEN LET read == ReadAll(resp) IN
         IF read.err # Nil
         THEN Return(Nil, Errorf("error deleting worker (%d: %s): %w",
                                 <<ToString(resp.StatusCode), resp.Status, ErrorText(read.err)>>))
         ELSE Return(Nil, Errorf("error deleting worker (%d: %s): %s",
                                 <<ToString(resp.StatusCode), resp.Status, read.data>>))
    ELSE Return(Nil, Nil)

\* Close, line 290 (Client.Close, line 77): c.cancel()
CloseCancel(c) == [c EXCEPT !.cancelled = TRUE]

\* Close, line 291 (Client.Close, line 78): the deferred c.wg.Wait() returns
\* once the counter is 0.
WaitReturns(c) == c.wg = 0

-----------------------------------------------------------------------------
(* Inputs.                                                                 *)

Calls == 1..MaxCalls

Configs ==
    [Disabled : BOOLEAN, UserID : {"", "acct", InvalidEscape}, Token : {"", "tok"},
     Prefix : {"", "sf-"}, UpstreamRootDomain : {"", "example.com"}]

\* The values a command line may give a flag.
FlagValues(name) ==
    IF name = "cloudflare-disabled" THEN {"true", "false"}
    ELSE IF name = "cloudflare-user-id" THEN {"", "acct", InvalidEscape}
    ELSE IF name = "cloudflare-token" THEN {"", "tok"}
    ELSE IF name = "cloudflare-prefix" THEN {"", "sf-"}
    ELSE {"", "example.com"}

\* Options a caller may hand to New directly.
OptionsValues ==
    [LogName : {"cloudflare"}, Disabled : BOOLEAN, UserID : {"", "acct", InvalidEscape},
     Token : {"", "tok"}, Prefix : {"", "sf-"}, UpstreamRootDomain : {"", "example.com"}]

\* The options of the clients the calls run on.
CallOptions ==
    [LogName : {"cloudflare"}, Disabled : {FALSE}, UserID : {"acct"},
     Token : {"tok"}, Prefix : {"sf-"}, UpstreamRootDomain : {"example.com"}]

\* Options of the Client variant: no Disabled, no UpstreamRootDomain.
ClientOptions(o) ==
    [LogName |-> o.LogName, UserID |-> o.UserID, Token |-> o.Token, Prefix |-> o.Prefix]

Identifiers == {"fn1", InvalidEscape}

WrapperScript == "console.log(1)"

WasmFile == [Content |-> "wasm-bytes", Extension |-> "wasm", ContentType |-> "application/wasm",
             Type |-> "wasm_module", Binding |-> "WASM"]
BlobFile == [Content |-> "blob-bytes", Extension |-> "bin",
             ContentType |-> "application/octet-stream",
             Type |-> "data_blob", Binding |-> "DATA"]

FunctionIdentifiers == {"fn1", "fn2"}

Functions ==
    [Identifier : FunctionIdentifiers, Source : {"source-bytes"},
     Files : SeqUpTo({WasmFile, BlobFile}, MaxFiles)]

ScaleFunctions ==
    [Identifier : FunctionIdentifiers, ScaleFunction : {"fn"}, WASM : {"wasm-bytes"}]

\* The function lists of the uploads that go to the network.
CallFunctions == <<[Identifier |-> "fn1", Source |-> "source-bytes", Files |-> <<WasmFile>>]>>
CallScaleFunctions == <<[Identifier |-> "fn1", ScaleFunction |-> "fn", WASM |-> "wasm-bytes"]>>

\* Response bodies: the raw text and how it reads as JSON.
BodyText == [raw |-> "internal error", doc |-> [kind |-> "invalid"]]
BodyNull == [raw |-> "null", doc |-> [kind |-> "null"]]
BodyAvailable ==
    [raw |-> "{\"success\":true,\"result\":{\"id\":\"sf-fn1\",\"available_on_subdomain\":true}}",
     doc |-> [kind |-> "object",
              members |-> [success |-> TRUE,
                           result |-> [id |-> "sf-fn1", available_on_subdomain |-> TRUE]]]]
BodyUnavailable ==
    [raw |-> "{\"success\":true,\"result\":{\"available_on_subdomain\":false}}",
     doc |-> [kind |-> "object",
              members |-> [success |-> TRUE,
                           result |-> [available_on_subdomain |-> FALSE]]]]
BodyFailure ==
    [raw |-> "{\"success\":false,\"errors\":[{\"code\":10021,\"message\":\"script rejected\"}]}",
     doc |-> [kind |-> "object",
              members |-> [success |-> FALSE,
                           errors |-> <<[code |-> 10021, message |-> "script rejected"]>>]]]

Response(code, status, body, readErr) ==
    [err |-> Nil, StatusCode |-> code, Status |-> status, Body |-> body, ReadErr |-> readErr]

ErrUnexpectedEOF == ErrorsNew("unexpected EOF")

\* What http.DefaultClient.Do may return: a transport error or a response.
Outcomes ==
    {[err |-> ErrorsNew("dial tcp: connection refused"), StatusCode |-> 0, Status |-> "",
      Body |-> BodyText, ReadErr |-> Nil]}
    \cup {Response(200, "200 OK", b, Nil) :
              b \in {BodyText, BodyNull, BodyAvailable, BodyUnavailable, BodyFailure}}
    \cup {Response(200, "200 OK", BodyUnavailable, ErrUnexpectedEOF),
          Response(500, "500 Internal Server Error", BodyText, Nil),
          Response(500, "500 Internal Server Error", BodyText, ErrUnexpectedEOF)}

-----------------------------------------------------------------------------
(* Configuration, projection and construction, one call at a time.         *)

InitCalls ==
    /\ pc = [k \in Calls |-> "idle"]
    /\ call = [k \in Calls |-> Nil]
    /\ sent = [k \in Calls |-> <<>>]
    /\ got = [k \in Calls |-> <<>>]
    /\ ret = [k \in Calls |-> Unset]

InitConfigUnused ==
    /\ cfg = Unset /\ flags = {} /\ validateErr = Unset
    /\ options = Nil /\ optionsBy = [by |-> "none", cfg |-> Nil]
    /\ newResult = Unset /\ upstream = Unset

InitBuildUnused == buildIn = Unset /\ buildOut = Unset

InitConfig ==
    /\ cfg \in Configs
    /\ flags = {}
    /\ validateErr = Unset /\ options = Nil /\ optionsBy = [by |-> "none", cfg |-> Nil]
    /\ newResult = Unset /\ upstream = Unset
    /\ cf = Nil /\ client = Nil
    /\ InitCalls
    /\ InitBuildUnused

\* cfg.RootPersistentFlags(flagSet), on a FlagSet that has none of the flags yet.
DoRootPersistentFlags ==
    /\ flags \cap FlagNames = {}
    /\ cfg' = RootPersistentFlags(cfg, flags).cfg
    /\ flags' = RootPersistentFlags(cfg, flags).flags
    /\ UNCHANGED <<validateErr, options, optionsBy, newResult, upstream, callVars, bldVars>>

\* The FlagSet is given a value for one of the registered flags.
DoSetFlag ==
    /\ \E name \in flags : \E text \in FlagValues(name) :
           cfg' = SetFlag(cfg, name, text)
    /\ UNCHANGED <<flags, validateErr, options, optionsBy, newResult, upstream,
                   callVars, bldVars>>

DoValidate ==
    /\ validateErr = Unset
    /\ cfg' = Validate(cfg).cfg
    /\ validateErr' = Validate(cfg).err
    /\ UNCHANGED <<flags, options, optionsBy, newResult, upstream, callVars, bldVars>>

DoGenerateOptions ==
    /\ options = Nil
    /\ options' = GenerateOptions(cfg, "cloudflare").options
    /\ optionsBy' = [by |-> "config", cfg |-> cfg]
    /\ UNCHANGED <<cfg, flags, validateErr, newResult, upstream, callVars, bldVars>>

\* A caller that fills in Options itself.
DoSetOptions ==
    /\ options = Nil
    /\ \E o \in OptionsValues : options' = o
    /\ optionsBy' = [by |-> "caller", cfg |-> Nil]
    /\ UNCHANGED <<cfg, flags, validateErr, newResult, upstream, callVars, bldVars>>

DoNew ==
    /\ options # Nil
    /\ newResult = Unset
    /\ newResult' = New(options)
    /\ UNCHANGED <<cfg, flags, validateErr, options, optionsBy, upstream, callVars, bldVars>>

DoUpstreamRootDomain ==
    /\ newResult # Unset
    /\ newResult.client # Nil
    /\ upstream = Unset
    /\ upstream' = [value |-> UpstreamRootDomain(newResult.client)]
    /\ UNCHANGED <<cfg, flags, validateErr, options, optionsBy, newResult, callVars,
                   bldVars>>

NextConfig ==
    \/ DoRootPersistentFlags
    \/ DoSetFlag
    \/ DoValidate
    \/ DoGenerateOptions
    \/ DoSetOptions
    \/ DoNew
    \/ DoUpstreamRootDomain

SpecConfig == InitConfig /\ [][NextConfig]_vars

-----------------------------------------------------------------------------
(* The multipart assembly on its own, over all function lists in bounds.   *)

InitBuild ==
    /\ buildIn = Unset /\ buildOut = Unset
    /\ InitConfigUnused
    /\ cf = Nil /\ client = Nil
    /\ InitCalls

BuildUploadFunction ==
    \E functions \in SeqUpTo(Functions, MaxFunctions) :
        /\ buildIn = Unset
        /\ buildIn' = [op |-> "UploadFunction", wrapperScript |-> WrapperScript,
                       functions |-> functions]
        /\ buildOut' = UploadFunctionBody(WrapperScript, functions)
        /\ UNCHANGED <<cfgVars, callVars>>

BuildUploadScaleFunction ==
    \E functions \in SeqUpTo(ScaleFunctions, MaxFunctions) :
        /\ buildIn = Unset
        /\ buildIn' = [op |-> "UploadScaleFunction", wrapperScript |-> WrapperScript,
                       functions |-> functions]
        /\ buildOut' = UploadScaleFunctionBody(WrapperScript, functions)
        /\ UNCHANGED <<cfgVars, callVars>>

NextBuild ==
    \/ BuildUploadFunction
    \/ BuildUploadScaleFunction

SpecBuild == InitBuild /\ [][NextBuild]_vars

-----------------------------------------------------------------------------
(* Concurrent calls on constructed clients.                                *)

Init ==
    /\ \E o \in CallOptions :
          /\ cf = New(o).client
          /\ client = ClientNew(ClientOptions(o)).client
    /\ InitCalls
    /\ InitConfigUnused
    /\ InitBuildUnused

\* The call k goes on as the step result r says.
GoOn(k, r) ==
    /\ pc' = [pc EXCEPT ![k] = r.next]
    /\ sent' = [sent EXCEPT ![k] = IF r.send = Nil THEN @ ELSE Append(@, r.send)]
    /\ ret' = [ret EXCEPT ![k] = r.ret]

CallUploadFunction(k) ==
    /\ pc[k] = "idle"
    /\ \E identifier \in Identifiers :
          /\ call' = [call EXCEPT ![k] = [op |-> "UploadFunction", identifier |-> identifier,
                                          functions |-> CallFunctions]]
          /\ GoOn(k, UploadFunctionBegin(cf, identifier, WrapperScript, CallFunctions))
    /\ UNCHANGED <<cf, client, got, cfgVars, bldVars>>

UploadFunctionPutDone(k) ==
    /\ pc[k] = "put" /\ call[k].op = "UploadFunction"
    /\ \E resp \in Outcomes :
          /\ got' = [got EXCEPT ![k] = Append(@, resp)]
          /\ GoOn(k, UploadFunctionPut(cf, call[k].identifier, resp))
    /\ UNCHANGED <<cf, client, call, cfgVars, bldVars>>

UploadFunctionPostDone(k) ==
    /\ pc[k] = "post" /\ call[k].op = "UploadFunction"
    /\ \E resp \in Outcomes :
          /\ got' = [got EXCEPT ![k] = Append(@, resp)]
          /\ GoOn(k, UploadFunctionPost(cf, call[k].identifier, resp))
    /\ UNCHANGED <<cf, client, call, cfgVars, bldVars>>

CallUploadScaleFunction(k) ==
    /\ pc[k] = "idle"
    /\ \E identifier \in Identifiers :
          /\ call' = [call EXCEPT ![k] = [op |-> "UploadScaleFunction",
                                          identifier |-> identifier,
                                          functions |-> CallScaleFunctions]]
          /\ GoOn(k, UploadScaleFunctionBegin(client, identifier, WrapperScript,
                                              CallScaleFunctions))
    /\ UNCHANGED <<cf, client, got, cfgVars, bldVars>>

UploadScaleFunctionPutDone(k) ==
    /\ pc[k] = "put" /\ call[k].op = "UploadScaleFunction"
    /\ \E resp \in Outcomes :
          /\ got' = [got EXCEPT ![k] = Append(@, resp)]
          /\ GoOn(k, UploadScaleFunctionPut(client, call[k].identifier, resp))
    /\ UNCHANGED <<cf, client, call, cfgVars, bldVars>>

CallDeleteFunction(k) ==
    /\ pc[k] = "idle"
    /\ \E identifier \in Identifiers :
          /\ call' = [call EXCEPT ![k] = [op |-> "DeleteFunction", identifier |-> identifier]]
          /\ GoOn(k, DeleteFunctionBegin(cf, identifier))
    /\ UNCHANGED <<cf, client, got, cfgVars, bldVars>>

DeleteFunctionResponse(k) ==
    /\ pc[k] = "delete" /\ call[k].op = "DeleteFunction"
    /\ \E resp \in Outcomes :
          /\ got' = [got EXCEPT ![k] = Append(@, resp)]
          /\ GoOn(k, DeleteFunctionDone(cf, resp))
    /\ UNCHANGED <<cf, client, call, cfgVars, bldVars>>

CallDeleteScaleFunction(k) ==
    /\ pc[k] = "idle"
    /\ \E identifier \in Identifiers :
          /\ call' = [call EXCEPT ![k] = [op |-> "DeleteScaleFunction",
                                          identifier |-> identifier]]
          /\ GoOn(k, DeleteScaleFunctionBegin(client, identifier))
    /\ UNCHANGED <<cf, client, got, cfgVars, bldVars>>

DeleteScaleFunctionResponse(k) ==
    /\ pc[k] = "delete" /\ call[k].op = "DeleteScaleFunction"
    /\ \E resp \in Outcomes :
          /\ got' = [got EXCEPT ![k] = Append(@, resp)]
          /\ GoOn(k, DeleteScaleFunctionDone(client, resp))
    /\ UNCHANGED <<cf, client, call, cfgVars, bldVars>>

\* Cloudflare.Close, lines 289-290: cancel the context; the wait is deferred.
CallClose(k) ==
    /\ pc[k] = "idle"
    /\ cf' = CloseCancel(cf)
    /\ call' = [call EXCEPT ![k] = [op |-> "Close"]]
    /\ pc' = [pc EXCEPT ![k] = "closing"]
    /\ UNCHANGED <<client, sent, got, ret, cfgVars, bldVars>>

\* Cloudflare.Close, lines 291-292: wg.Wait(), then return nil.
CloseWait(k) ==
    /\ pc[k] = "closing" /\ call[k].op = "Close"
    /\ WaitReturns(cf)
    /\ GoOn(k, Return(Nil, Nil))
    /\ UNCHANGED <<cf, client, call, got, cfgVars, bldVars>>

\* Client.Close, lines 77-78: cancel the context; the wait is deferred.
CallClientClose(k) ==
    /\ pc[k] = "idle"
    /\ client' = CloseCancel(client)
    /\ call' = [call EXCEPT ![k] = [op |-> "ClientClose"]]
    /\ pc' = [pc EXCEPT ![k] = "closing"]
    /\ UNCHANGED <<cf, sent, got, ret, cfgVars, bldVars>>

\* Client.Close, lines 79-80: wg.Wait(), then return nil.
ClientCloseWait(k) ==
    /\ pc[k] = "closing" /\ call[k].op = "ClientClose"
    /\ WaitReturns(client)
    /\ GoOn(k, Return(Nil, Nil))
    /\ UNCHANGED <<cf, client, call, got, cfgVars, bldVars>>

\* The caller has its result and is free to call again.
Finish(k) ==
    /\ pc[k] = "returned"
    /\ pc' = [pc EXCEPT ![k] = "idle"]
    /\ call' = [call EXCEPT ![k] = Nil]
    /\ sent' = [sent EXCEPT ![k] = <<>>]
    /\ got' = [got EXCEPT ![k] = <<>>]
    /\ ret' = [ret EXCEPT ![k] = Unset]
    /\ UNCHANGED <<cf, client, cfgVars, bldVars>>

Next ==
    \E k \in Calls :
        \/ CallUploadFunction(k)
        \/ UploadFunctionPutDone(k)
        \/ UploadFunctionPostDone(k)
        \/ CallUploadScaleFunction(k)
        \/ UploadScaleFunctionPutDone(k)
        \/ CallDeleteFunction(k)
        \/ DeleteFunctionResponse(k)
        \/ CallDeleteScaleFunction(k)
        \/ DeleteScaleFunctionResponse(k)
        \/ CallClose(k)
        \/ CloseWait(k)
        \/ CallClientClose(k)
        \/ ClientCloseWait(k)
        \/ Finish(k)

Spec == Init /\ [][Next]_vars

-----------------------------------------------------------------------------
(* Properties.                                                             *)

Op(k) == IF call[k] = Nil THEN "none" ELSE call[k].op

Uploads == {"UploadFunction", "UploadScaleFunction"}
Deletes == {"DeleteFunction", "DeleteScaleFunction"}

\* The client a call runs on.
ClientOf(k) == IF Op(k) \in {"UploadScaleFunction", "DeleteScaleFunction"} THEN client ELSE cf

\* <base>/<prefix><identifier> of a call.
ScriptURL(k) ==
    "https://api.cloudflare.com/client/v4/accounts/" \o ClientOf(k).options.UserID
        \o "/workers/scripts" \o "/" \o ClientOf(k).options.Prefix \o call[k].identifier

Requests(k, method) == {i \in 1..Len(sent[k]) : sent[k][i].Method = method}

\* A response that arrived with its body readable.
Answered(r) == r.err = Nil /\ r.ReadErr = Nil

\* What the JSON envelope of a response says.
Envelope(r) == r.Body.doc
SaysSuccess(r) ==
    /\ Envelope(r).kind = "object"
    /\ "success" \in DOMAIN Envelope(r).members
    /\ Envelope(r).members.success
SaysFailure(r) ==
    /\ Envelope(r).kind = "object"
    /\ ("success" \in DOMAIN Envelope(r).members => ~Envelope(r).members.success)
SaysAvailable(r) ==
    /\ "result" \in DOMAIN Envelope(r).members
    /\ "available_on_subdomain" \in DOMAIN Envelope(r).members.result
    /\ Envelope(r).members.result.available_on_subdomain

\* ---- C1 ----------------------------------------------------------------

\* The extensions of the auxiliary files of one artifact: its Files, or the
\* one WASM module of a scale function.
AuxExtensions(f) ==
    IF buildIn.op = "UploadFunction"
    THEN [j \in 1..Len(f.Files) |-> f.Files[j].Extension]
    ELSE <<"wasm">>

RECURSIVE CountAux(_)
CountAux(fs) == IF fs = <<>> THEN 0 ELSE Len(AuxExtensions(Head(fs))) + CountAux(Tail(fs))

\* How many parts the claim asks for under the name n.
ExpectedParts(n) ==
    LET fs == buildIn.functions IN
    Cardinality({i \in 1..Len(fs) : fs[i].Identifier \o ".bin" = n})
    + Cardinality({p \in {<<i, j>> : i \in 1..Len(fs), j \in 1..MaxFiles + 1} :
                      /\ p[2] <= Len(AuxExtensions(fs[p[1]]))
                      /\ fs[p[1]].Identifier \o "." \o AuxExtensions(fs[p[1]])[p[2]] = n})

ExpectedNames ==
    LET fs == buildIn.functions IN
    {fs[i].Identifier \o ".bin" : i \in 1..Len(fs)}
    \cup UNION {{fs[i].Identifier \o "." \o AuxExtensions(fs[i])[j] :
                    j \in 1..Len(AuxExtensions(fs[i]))} : i \in 1..Len(fs)}

\* C1: with N artifacts and M auxiliary files the body has 1 + N + M + 1
\* parts: worker.js first, metadata last, and between them one <id>.bin per
\* artifact and one <id>.<extension> per auxiliary file; the metadata has
\* N + M bindings whose part fields are a bijection onto the names of the
\* parts between worker.js and metadata: every such part is named by
\* exactly one binding and every binding names exactly one such part. One
\* artifact fn1 without files gives worker.js, fn1.bin, metadata and the one
\* binding data_blob / __SF_fn1 / fn1.bin.
C1_PartsAndBindings ==
    buildOut # Unset =>
        LET parts == buildOut.parts
            bindings == buildOut.metadata.Bindings
            N == Len(buildIn.functions)
            M == CountAux(buildIn.functions)
            inner == 2..(Len(parts) - 1)
        IN /\ buildOut.closed
           /\ Len(parts) = 1 + N + M + 1
           /\ parts[1].Name = "worker.js"
           /\ parts[Len(parts)].Name = "metadata"
           /\ buildOut.metadata.BodyPart = "worker.js"
           /\ Len(bindings) = N + M
           /\ \A n \in ExpectedNames \cup {parts[i].Name : i \in inner} :
                  Cardinality({i \in inner : parts[i].Name = n}) = ExpectedParts(n)
           /\ \A i \in inner :
                  Cardinality({b \in 1..Len(bindings) : bindings[b].Part = parts[i].Name}) = 1
           /\ \A b \in 1..Len(bindings) :
                  Cardinality({i \in inner : parts[i].Name = bindings[b].Part}) = 1
           /\ (/\ buildIn.op = "UploadFunction"
               /\ buildIn.functions = <<[Identifier |-> "fn1", Source |-> "source-bytes",
                                         Files |-> <<>>]>>)
              => /\ [i \in 1..Len(parts) |-> parts[i].Name] = <<"worker.js", "fn1.bin", "metadata">>
                 /\ bindings = <<[Type |-> "data_blob", Name |-> "__SF_fn1", Part |-> "fn1.bin"]>>

\* ---- C2 ----------------------------------------------------------------

\* C2 as stated: an upload whose PUT is answered with a status other than
\* 200 fails with an error holding the status code and the response body
\* text, and issues no subdomain POST.
C2_Original ==
    \A k \in Calls :
        (/\ Op(k) \in Uploads
         /\ Len(got[k]) >= 1
         /\ got[k][1].err = Nil
         /\ got[k][1].StatusCode # 200)
        => /\ pc[k] = "returned"
           /\ ret[k].val = Nil
           /\ ret[k].err # Nil
           /\ ToString(got[k][1].StatusCode) \in Range(ret[k].err.args)
           /\ got[k][1].Body.raw \in Range(ret[k].err.args)
           /\ Requests(k, "POST") = {}

\* C2, amended: an upload whose PUT is answered with a status other than 200
\* fails with an error holding the status code and, when the response body
\* could be read, the body text (the read error when it could not), and
\* issues no subdomain POST.
C2_RejectedUploadFails ==
    \A k \in Calls :
        (/\ Op(k) \in Uploads
         /\ Len(got[k]) >= 1
         /\ got[k][1].err = Nil
         /\ got[k][1].StatusCode # 200)
        => /\ pc[k] = "returned"
           /\ ret[k].val = Nil
           /\ ret[k].err # Nil
           /\ ToString(got[k][1].StatusCode) \in Range(ret[k].err.args)
           /\ IF got[k][1].ReadErr = Nil
              THEN got[k][1].Body.raw \in Range(ret[k].err.args)
              ELSE got[k][1].ReadErr.format \in Range(ret[k].err.args)
           /\ Requests(k, "POST") = {}

\* An UploadFunction call has failed on a 500 "internal error".
C2_Witness ==
    \E k \in Calls :
        /\ Op(k) = "UploadFunction"
        /\ pc[k] = "returned"
        /\ Len(got[k]) = 1
        /\ got[k][1].StatusCode = 500
        /\ got[k][1].ReadErr = Nil
        /\ ret[k].err # Nil
        /\ "500" \in Range(ret[k].err.args)
        /\ "internal error" \in Range(ret[k].err.args)

\* ---- C3 ----------------------------------------------------------------

\* C3: an UploadFunction call issues the subdomain POST, to
\* <base>/<prefix><id>/subdomain with the JSON body {"enabled": true}, only
\* as its second request, after the PUT was answered; once the PUT is
\* answered it has issued exactly one if the answer is a 200 whose envelope
\* has success = true and available_on_subdomain = false, and none otherwise.
C3_SubdomainPostExactlyOnce ==
    \A k \in Calls :
        Op(k) = "UploadFunction"
        => /\ \A i \in Requests(k, "POST") :
                  /\ i = 2
                  /\ sent[k][1].Method = "PUT"
                  /\ Len(got[k]) >= 1
                  /\ sent[k][i].URL = ScriptURL(k) \o "/subdomain"
                  /\ sent[k][i].Body.doc = [kind |-> "object", members |-> [enabled |-> TRUE]]
           /\ Len(sent[k]) <= 2
           /\ Len(got[k]) >= 1
              => Cardinality(Requests(k, "POST")) =
                     IF /\ Answered(got[k][1])
                        /\ got[k][1].StatusCode = 200
                        /\ SaysSuccess(got[k][1])
                        /\ ~SaysAvailable(got[k][1])
                     THEN 1 ELSE 0

\* An UploadFunction call has returned its handle after the one POST.
C3_Witness ==
    \E k \in Calls :
        /\ Op(k) = "UploadFunction"
        /\ pc[k] = "returned"
        /\ Cardinality(Requests(k, "POST")) = 1
        /\ Len(got[k]) = 2
        /\ ret[k].err = Nil

\* ---- C4 ----------------------------------------------------------------

\* C4: an upload (UploadFunction or UploadScaleFunction) whose PUT is
\* answered 200 with an envelope of success = false returns an error that
\* holds the envelope's error list, and no result.
C4_FailureEnvelopeFails ==
    \A k \in Calls :
        (/\ Op(k) \in Uploads
         /\ Len(got[k]) >= 1
         /\ Answered(got[k][1])
         /\ got[k][1].StatusCode = 200
         /\ SaysFailure(got[k][1]))
        => /\ pc[k] = "returned"
           /\ ret[k].val = Nil
           /\ ret[k].err # Nil
           /\ FormatErrors(Member(Envelope(got[k][1]).members, "errors", <<>>))
                  \in Range(ret[k].err.args)

\* ---- C5 ----------------------------------------------------------------

\* The PUT was accepted and the subdomain is, or was made, available.
FullSuccess(k) ==
    /\ Len(got[k]) >= 1
    /\ Answered(got[k][1])
    /\ got[k][1].StatusCode = 200
    /\ SaysSuccess(got[k][1])
    /\ \/ SaysAvailable(got[k][1])
       \/ /\ Len(got[k]) >= 2
          /\ got[k][2].err = Nil
          /\ got[k][2].StatusCode = 200

\* C5: an UploadFunction call that is over has returned, and returned either
\* the handle (identifier, prefix + identifier) with a nil error, exactly
\* when the PUT was accepted and the subdomain is or was made available, or
\* a nil handle with a non-nil error.
C5_NoPartialSuccess ==
    \A k \in Calls :
        (Op(k) = "UploadFunction" /\ pc[k] \in {"returned", "panicked"})
        => /\ pc[k] = "returned"
           /\ IF FullSuccess(k)
              THEN /\ ret[k].err = Nil
                   /\ ret[k].val = [Identifier |-> call[k].identifier,
                                    Subdomain |-> cf.options.Prefix \o call[k].identifier]
              ELSE /\ ret[k].val = Nil
                   /\ ret[k].err # Nil

\* ---- C6 ----------------------------------------------------------------

UploadInFlight(k) == Op(k) = "UploadFunction" /\ pc[k] \in {"put", "post"}

\* C6: Cloudflare.Close does not return while an UploadFunction call on the
\* client is in flight.
C6_CloseWaitsForUploads ==
    [][\A k \in Calls :
           (Op(k) = "Close" /\ pc[k] = "closing" /\ pc'[k] = "returned")
           => \A u \in Calls : ~UploadInFlight(u)]_vars

\* ---- C9 ----------------------------------------------------------------

\* C9 as stated: a delete call that has returned issued exactly one DELETE
\* to <base>/<prefix><identifier>; it returned nil exactly on status 200, on
\* another status an error holding the status code and the body text, and
\* on a transport failure an error.
C9_Original ==
    \A k \in Calls :
        (Op(k) \in Deletes /\ pc[k] = "returned")
        => /\ Len(sent[k]) = 1
           /\ sent[k][1].Method = "DELETE"
           /\ sent[k][1].URL = ScriptURL(k)
           /\ Len(got[k]) = 1
           /\ ret[k].err = Nil <=> (got[k][1].err = Nil /\ got[k][1].StatusCode = 200)
           /\ (got[k][1].err = Nil /\ got[k][1].StatusCode # 200)
              => /\ ToString(got[k][1].StatusCode) \in Range(ret[k].err.args)
                 /\ got[k][1].Body.raw \in Range(ret[k].err.args)

\* C9, amended: a delete call never issues more than one request; one that
\* has returned issued exactly one DELETE to <base>/<prefix><identifier>,
\* unless the request could not be built from the identifier, and then it
\* issued none and returned an error. With the request issued it returned
\* nil exactly on status 200, on another status an error holding the status
\* code and the body text when the body could be read (the read error when
\* not), and on a transport failure an error.
C9_DeleteOnce ==
    \A k \in Calls :
        Op(k) \in Deletes
        => /\ Len(sent[k]) <= 1
           /\ Len(got[k]) <= Len(sent[k])
           /\ \A i \in 1..Len(sent[k]) :
                  sent[k][i].Method = "DELETE" /\ sent[k][i].URL = ScriptURL(k)
           /\ pc[k] = "returned"
              => IF call[k].identifier = InvalidEscape
                 THEN Len(sent[k]) = 0 /\ ret[k].err # Nil
                 ELSE /\ Len(sent[k]) = 1
                      /\ Len(got[k]) = 1
                      /\ ret[k].err = Nil
                             <=> (got[k][1].err = Nil /\ got[k][1].StatusCode = 200)
                      /\ (got[k][1].err = Nil /\ got[k][1].StatusCode # 200)
                         => /\ ToString(got[k][1].StatusCode) \in Range(ret[k].err.args)
                            /\ IF got[k][1].ReadErr = Nil
                               THEN got[k][1].Body.raw \in Range(ret[k].err.args)
                               ELSE got[k][1].ReadErr.format \in Range(ret[k].err.args)

\* A DeleteFunction call has failed on a 500 "internal error" after its one request.
C9_Witness ==
    \E k \in Calls :
        /\ Op(k) = "DeleteFunction"
        /\ pc[k] = "returned"
        /\ Len(sent[k]) = 1
        /\ got[k][1].StatusCode = 500
        /\ got[k][1].ReadErr = Nil
        /\ ret[k].err # Nil
        /\ "internal error" \in Range(ret[k].err.args)

\* ---- C7 ----------------------------------------------------------------

\* C7: New on options with Disabled = true returns ErrDisabled and no
\* client, whatever the other fields; with Disabled = false and an account
\* id that gives a parsable URL it returns a client and a nil error.
C7_DisabledAlwaysErrDisabled ==
    newResult # Unset
    => /\ options.Disabled
          => /\ newResult.client = Nil
             /\ newResult.err = [format |-> "cloudflare is disabled", args |-> <<>>]
       /\ (~options.Disabled /\ options.UserID # "%zz")
          => /\ newResult.client # Nil
             /\ newResult.err = Nil

\* New has refused disabled options whose account id does not parse.
C7_Witness ==
    /\ newResult # Unset
    /\ options.Disabled
    /\ options.UserID = "%zz"
    /\ options.UpstreamRootDomain # ""
    /\ newResult.client = Nil
    /\ newResult.err # Nil

\* ---- C8 ----------------------------------------------------------------

\* The required-error of the first empty field of c, nil when there is none.
FirstRequiredError(c) ==
    LET fields == <<c.UserID, c.Token, c.Prefix, c.UpstreamRootDomain>>
        errors == <<"cloudflare user id is required", "cloudflare token is required",
                    "cloudflare prefix is required",
                    "cloudflare upstream root domain is required">>
        empty == {i \in 1..4 : fields[i] = ""}
    IN IF empty = {} THEN Nil
       ELSE [format |-> errors[CHOOSE i \in empty : \A j \in empty : i <= j], args |-> <<>>]

\* C8: a call of Validate leaves the configuration as it was and returns nil
\* when Disabled is set; when it is not, nil exactly when the four fields
\* are non-empty and else the required-error of the first empty one.
C8_ValidateContract ==
    [][(validateErr = Unset /\ validateErr' # Unset)
       => /\ cfg' = cfg
          /\ validateErr' = IF cfg.Disabled THEN Nil ELSE FirstRequiredError(cfg)]_vars

\* Validate has asked for the prefix of a configuration whose later field is empty too.
C8_Witness ==
    /\ validateErr = [format |-> "cloudflare prefix is required", args |-> <<>>]
    /\ ~cfg.Disabled
    /\ cfg.UpstreamRootDomain = ""

\* ---- C10 ---------------------------------------------------------------

\* C10: the options GenerateOptions makes of a configuration that passes
\* Validate with Disabled = false (none of its four fields is empty) carry
\* its five fields, and the client built from them returns the configured
\* upstream root domain.
C10_OptionsPreserveConfig ==
    (/\ optionsBy.by = "config"
     /\ ~optionsBy.cfg.Disabled
     /\ FirstRequiredError(optionsBy.cfg) = Nil)
    => /\ options.Disabled = optionsBy.cfg.Disabled
       /\ options.UserID = optionsBy.cfg.UserID
       /\ options.Token = optionsBy.cfg.Token
       /\ options.Prefix = optionsBy.cfg.Prefix
       /\ options.UpstreamRootDomain = optionsBy.cfg.UpstreamRootDomain
       /\ upstream # Unset
          => /\ upstream.value = optionsBy.cfg.UpstreamRootDomain
             /\ upstream.value # ""

====
